---- MODULE Spec2Model ----
(***************************************************************************)
(* State machine of the Home component of src/src/app/page.tsx: the scrape *)
(* and crawl handlers, the crawl status poller (setInterval callback) and  *)
(* the text-to-speech side flow.  Every handler is cut at its awaits: one  *)
(* action for the synchronous part that issues a request, one action for   *)
(* the continuation that runs when the awaited promise settles.            *)
(***************************************************************************)
EXTENDS Integers, FiniteSets, Sequences, TLC

\* ---- bounds of the model ------------------------------------------------
MaxPending == 2  \* user actions not yet finished: requests awaiting their response, and crawls
MaxPolls   == 2  \* status requests awaiting their response
MaxAudios  == 2  \* Audio objects alive (referenced) at the same time

\* ---- values --------------------------------------------------------------
NoError    == "<null>"   \* error === null
NoAudio    == 0          \* audioElement === null
Undefined  == "<undefined>"

Urls       == {"", "https://example.com"}
CrawlIds   == 1..MaxPending
AudioIds   == 1..MaxAudios

\* JavaScript truthiness of an optional string, and a || b on such strings
Truthy(s)  == s \notin {Undefined, ""}
OrElse(a, b) == IF Truthy(a) THEN a ELSE b

\* ---- response bodies (the text of response.text()) ----------------------
TxtHtml      == "<html>Bad Gateway</html>"
TxtScrape    == "{\"success\":true,\"data\":{\"markdown\":\"# Hello\",\"metadata\":{\"description\":\"desc\"}}}"
TxtBare      == "{\"success\":true,\"data\":{\"markdown\":\"\"}}"
TxtMessage   == "{\"message\":\"Unauthorized\"}"
TxtNoMessage == "{\"message\":\"\"}"
TxtJob       == "{\"id\":\"job-1\"}"
TxtScraping  == "{\"status\":\"scraping\",\"data\":[]}"
TxtCompleted == "{\"status\":\"completed\",\"data\":[{\"metadata\":{\"description\":\"hi\"}}]}"
TxtFailed    == "{\"status\":\"failed\",\"data\":[]}"

JsonTexts == {TxtScrape, TxtBare, TxtMessage, TxtNoMessage, TxtJob, TxtScraping,
              TxtCompleted, TxtFailed}

\* A parsed JSON object, reduced to the members the component reads:
\* data ("absent" | "object" | "array"), the description reached through
\* data.metadata (object) or data[0].metadata (array), status, message.
Null == [type |-> "null"]
Obj(success, data, description, status, message, id) ==
    [type |-> "object", success |-> success, data |-> data,
     description |-> description, status |-> status, message |-> message,
     id |-> id]

IsJson(text) == text \in JsonTexts

JSONParse(text) ==
    CASE text = TxtScrape    -> Obj(TRUE, "object", "desc", Undefined, Undefined, Undefined)
      [] text = TxtBare      -> Obj(TRUE, "object", Undefined, Undefined, Undefined, Undefined)
      [] text = TxtMessage   -> Obj(FALSE, "absent", Undefined, Undefined, "Unauthorized", Undefined)
      [] text = TxtNoMessage -> Obj(FALSE, "absent", Undefined, Undefined, "", Undefined)
      [] text = TxtJob       -> Obj(FALSE, "absent", Undefined, Undefined, Undefined, "job-1")
      [] text = TxtScraping  -> Obj(FALSE, "array", Undefined, "scraping", Undefined, Undefined)
      [] text = TxtCompleted -> Obj(FALSE, "array", "hi", "completed", Undefined, Undefined)
      [] text = TxtFailed    -> Obj(FALSE, "array", Undefined, "failed", Undefined, Undefined)

\* ---- HTTP responses -------------------------------------------------------
\* net = FALSE: fetch() or response.text() rejected (network failure).
NetFail == [net |-> FALSE, status |-> 0, text |-> ""]
Http(status, text) == [net |-> TRUE, status |-> status, text |-> text]
ResponseOk(r) == r.status >= 200 /\ r.status <= 299

\* The answers of the three extraction endpoints and of the synthesis
\* endpoint that the model lets the network give.
ScrapeResponses == {NetFail, Http(200, TxtScrape), Http(200, TxtBare),
                    Http(401, TxtMessage), Http(500, TxtNoMessage), Http(500, TxtHtml)}
StartResponses  == {NetFail, Http(200, TxtJob), Http(401, TxtMessage),
                    Http(500, TxtNoMessage), Http(500, TxtHtml)}
PollResponses   == {NetFail, Http(200, TxtScraping), Http(200, TxtCompleted),
                    Http(200, TxtFailed), Http(401, TxtMessage), Http(500, TxtHtml)}
\* the synthesis endpoint answers with a blob: "" is a zero-length payload
SpeechResponses == {NetFail, Http(401, ""), Http(500, ""), Http(200, ""), Http(200, "mp3")}

\* ---- messages -------------------------------------------------------------
NetErrMsg        == "Failed to fetch"
InvalidJson(t)   == "Invalid JSON response: " \o t
ScrapeFallback   == "Failed to scrape URL"
CrawlFallback    == "Failed to start crawl"
CrawlFailedMsg   == "Crawl failed"
NoTextMsg        == "No text available to convert to speech"
NoKeyMsg         == "ElevenLabs API key is not configured"
BadKeyMsg        == "Invalid ElevenLabs API key. Please check your configuration."
EmptyAudioMsg    == "Received empty audio response"
\* response.statusText
StatusText(status) ==
    CASE status = 200 -> "OK"
      [] status = 401 -> "Unauthorized"
      [] status = 500 -> "Internal Server Error"
      [] OTHER        -> ""
SpeechFailed(r)  == "Failed to generate speech: " \o ToString(r.status) \o " " \o StatusText(r.status)
AudioErrMsg      == "Error playing audio: Unknown error"
PlayErrMsg       == "play() request was rejected"

Threw(m)    == [threw |-> TRUE, message |-> m, data |-> Null]
Returned(d) == [threw |-> FALSE, message |-> NoError, data |-> d]

VARIABLES
    mounted,      \* whether the Home component is on screen
    url,          \* useState('')
    loading,      \* useState(false): the busy flag
    result,       \* useState(null)
    error,        \* useState(null)
    isPlaying,    \* useState(false)
    audioElement, \* useState(null): id of the held Audio object, or NoAudio
    scrapes,      \* handleScrape invocations awaiting their response
    starts,       \* handleCrawl invocations awaiting the POST /crawl response
    timer,        \* per handleCrawl invocation: "none" | "active" | "cleared"
    polls,        \* per handleCrawl invocation: status requests awaiting a response
    synths,       \* handleTextToSpeech invocations awaiting generateSpeech
    plays,        \* Audio objects whose play() promise is pending
    audio,        \* per Audio object: its playback state
    ev            \* the event handled by the last step

vars == <<mounted, url, loading, result, error, isPlaying, audioElement, scrapes,
          starts, timer, polls, synths, plays, audio, ev>>

session == <<loading, result, error, isPlaying, audioElement>>
crawlVars == <<starts, timer, polls>>
audioVars == <<synths, plays, audio>>

Event(op, id, r) == [op |-> op, id |-> id, resp |-> r]

LiveCrawls == {j \in CrawlIds : timer[j] # "none"}
Pending == scrapes + starts + synths + Cardinality(LiveCrawls)
InFlightPolls ==
    LET RECURSIVE Sum(_)
        Sum(S) == IF S = {} THEN 0
                  ELSE LET j == CHOOSE k \in S : TRUE IN polls[j] + Sum(S \ {j})
    IN Sum(CrawlIds)

Init ==
    /\ mounted = TRUE
    /\ url = ""
    /\ loading = FALSE
    /\ result = Null
    /\ error = NoError
    /\ isPlaying = FALSE
    /\ audioElement = NoAudio
    /\ scrapes = 0
    /\ starts = 0
    /\ timer = [j \in CrawlIds |-> "none"]
    /\ polls = [j \in CrawlIds |-> 0]
    /\ synths = 0
    /\ plays = {}
    /\ audio = [a \in AudioIds |-> "none"]
    /\ ev = Event("init", 0, NetFail)

\* ---- URL input ------------------------------------------------------------
SetUrl(u) ==
    /\ mounted
    /\ u # url
    /\ url' = u
    /\ ev' = Event("setUrl", 0, NetFail)
    /\ UNCHANGED <<mounted, session, scrapes, crawlVars, audioVars>>

\* disabled={loading || !url} of both buttons, and handleKeyDown's test; the
\* buttons and the keydown listener exist only while the component is mounted
CanTrigger == mounted /\ ~loading /\ url # ""

\* ---- fetch + text + JSON.parse + ok test of handleScrape and handleCrawl --
\* ParseAndCheck with the body's message dropped: always the generic string
ParseAndCheck_GenericOnly(r, fallback) ==
    IF ~r.net THEN Threw(NetErrMsg)
    ELSE IF ~IsJson(r.text) THEN Threw(InvalidJson(r.text))
    ELSE IF ~ResponseOk(r) THEN Threw(fallback)
    ELSE Returned(JSONParse(r.text))

ParseAndCheck(r, fallback) ==
    IF ~r.net THEN Threw(NetErrMsg)
    ELSE IF ~IsJson(r.text) THEN Threw(InvalidJson(r.text))
    ELSE IF ~ResponseOk(r) THEN Threw(OrElse(JSONParse(r.text).message, fallback))
    ELSE Returned(JSONParse(r.text))

\* ---- handleScrape ---------------------------------------------------------
ScrapeClick ==
    /\ CanTrigger
    /\ Pending < MaxPending
    /\ loading' = TRUE
    /\ error' = NoError
    /\ scrapes' = scrapes + 1
    /\ ev' = Event("scrape", 0, NetFail)
    /\ UNCHANGED <<mounted, url, result, isPlaying, audioElement, crawlVars, audioVars>>

\* ScrapeResponse without the finally block: setLoading(false) only in catch
ScrapeResponse_NoFinally(r) ==
    /\ scrapes > 0
    /\ scrapes' = scrapes - 1
    /\ LET o == ParseAndCheck(r, ScrapeFallback) IN
        /\ result' = IF o.threw THEN result ELSE o.data
        /\ error' = IF o.threw THEN o.message ELSE error
        /\ loading' = IF o.threw THEN FALSE ELSE loading
    /\ ev' = Event("scrapeResp", 0, r)
    /\ UNCHANGED <<mounted, url, isPlaying, audioElement, crawlVars, audioVars>>

\* ScrapeResponse with setLoading(false) at the end of the try block instead
\* of a finally block
ScrapeResponse_BusyOnError(r) ==
    /\ scrapes > 0
    /\ scrapes' = scrapes - 1
    /\ LET o == ParseAndCheck(r, ScrapeFallback) IN
        /\ result' = IF o.threw THEN result ELSE o.data
        /\ error' = IF o.threw THEN o.message ELSE error
        /\ loading' = IF o.threw THEN loading ELSE FALSE
    /\ ev' = Event("scrapeResp", 0, r)
    /\ UNCHANGED <<mounted, url, isPlaying, audioElement, crawlVars, audioVars>>

ScrapeResponse(r) ==
    /\ scrapes > 0
    /\ scrapes' = scrapes - 1
    /\ LET o == ParseAndCheck(r, ScrapeFallback) IN
        /\ result' = IF o.threw THEN result ELSE o.data
        /\ error' = IF o.threw THEN o.message ELSE error
    /\ loading' = FALSE
    /\ ev' = Event("scrapeResp", 0, r)
    /\ UNCHANGED <<mounted, url, isPlaying, audioElement, crawlVars, audioVars>>

\* ---- handleCrawl ----------------------------------------------------------
\* A poll timer that was cleared and has no request left in flight can no
\* longer act: its slot is free again ("none").
FreeCrawl  == CHOOSE j \in CrawlIds : timer[j] = "none" /\ \A k \in CrawlIds : timer[k] = "none" => j <= k
Settle(t, p) == [j \in CrawlIds |-> IF t[j] = "cleared" /\ p[j] = 0 THEN "none" ELSE t[j]]

\* handleKeyDown (Ctrl+Alt+C) and the hidden button: both call handleCrawl
\* under the same test.
CrawlTrigger ==
    /\ CanTrigger
    /\ Pending < MaxPending
    /\ loading' = TRUE
    /\ error' = NoError
    /\ starts' = starts + 1
    /\ ev' = Event("crawl", 0, NetFail)
    /\ UNCHANGED <<mounted, url, result, isPlaying, audioElement, scrapes, timer, polls, audioVars>>

\* CrawlStartResponse with setInterval reached on the failure path too
CrawlStartResponse_TimerAnyway(r) ==
    /\ starts > 0
    /\ starts' = starts - 1
    /\ LET o == ParseAndCheck(r, CrawlFallback) IN
        /\ error' = IF o.threw THEN o.message ELSE error
        /\ loading' = IF o.threw THEN FALSE ELSE loading
        /\ timer' = [timer EXCEPT ![FreeCrawl] = "active"]
        /\ ev' = Event("crawlResp", IF o.threw THEN 0 ELSE FreeCrawl, r)
    /\ UNCHANGED <<mounted, url, result, isPlaying, audioElement, scrapes, polls, audioVars>>

CrawlStartResponse(r) ==
    /\ starts > 0
    /\ starts' = starts - 1
    /\ LET o == ParseAndCheck(r, CrawlFallback) IN
        IF o.threw
        THEN /\ error' = o.message
             /\ loading' = FALSE
             /\ timer' = timer
             /\ ev' = Event("crawlResp", 0, r)
        ELSE /\ timer' = [timer EXCEPT ![FreeCrawl] = "active"]   \* setInterval
             /\ ev' = Event("crawlResp", FreeCrawl, r)
             /\ UNCHANGED <<error, loading>>
    /\ UNCHANGED <<mounted, url, result, isPlaying, audioElement, scrapes, polls, audioVars>>

\* ---- the setInterval callback ----------------------------------------------
\* A tick issues the status request; ticks fire whether or not the previous
\* request has returned.
Tick(j) ==
    /\ timer[j] = "active"
    /\ InFlightPolls < MaxPolls
    /\ polls' = [polls EXCEPT ![j] = @ + 1]
    /\ ev' = Event("tick", j, NetFail)
    /\ UNCHANGED <<mounted, url, session, scrapes, starts, timer, audioVars>>

\* PollBranch testing for 'complete' instead of 'completed'
PollBranch_Typo(r) ==
    IF ~r.net THEN "error"
    ELSE IF ~IsJson(r.text) THEN "error"
    ELSE IF JSONParse(r.text).status = "complete" THEN "completed"
    ELSE IF JSONParse(r.text).status = "failed" THEN "failed"
    ELSE "pending"

\* PollBranch without the inner test for 'failed': both terminal statuses
\* take the setResult branch
PollBranch_FailedAsCompleted(r) ==
    IF ~r.net THEN "error"
    ELSE IF ~IsJson(r.text) THEN "error"
    ELSE IF JSONParse(r.text).status \in {"completed", "failed"} THEN "completed"
    ELSE "pending"

\* PollBranch where every status other than 'completed' counts as failed
PollBranch_OthersFail(r) ==
    IF ~r.net THEN "error"
    ELSE IF ~IsJson(r.text) THEN "error"
    ELSE IF JSONParse(r.text).status = "completed" THEN "completed"
    ELSE "failed"

\* PollBranch with a catch that swallows the failure and lets the next tick
\* retry
PollBranch_ErrorsRetry(r) ==
    IF ~r.net THEN "pending"
    ELSE IF ~IsJson(r.text) THEN "pending"
    ELSE IF JSONParse(r.text).status = "completed" THEN "completed"
    ELSE IF JSONParse(r.text).status = "failed" THEN "failed"
    ELSE "pending"

\* The branch the callback takes on a response: the response's ok flag is
\* not consulted.
PollBranch(r) ==
    IF ~r.net THEN "error"
    ELSE IF ~IsJson(r.text) THEN "error"
    ELSE IF JSONParse(r.text).status = "completed" THEN "completed"
    ELSE IF JSONParse(r.text).status = "failed" THEN "failed"
    ELSE "pending"

PollErrorMessage(r) == IF ~r.net THEN NetErrMsg ELSE InvalidJson(r.text)

\* PollResponse whose catch block does not call clearInterval
PollResponse_CatchKeepsTimer(j, r) ==
    /\ polls[j] > 0
    /\ polls' = [polls EXCEPT ![j] = @ - 1]
    /\ LET b == PollBranch(r)
           cleared == [timer EXCEPT ![j] = "cleared"]
       IN
        /\ timer' = Settle(IF b \in {"pending", "error"} THEN timer ELSE cleared, polls')
        /\ loading' = IF b = "pending" THEN loading ELSE FALSE
        /\ error' = CASE b = "error"  -> PollErrorMessage(r)
                      [] b = "failed" -> CrawlFailedMsg
                      [] OTHER        -> error
        /\ result' = IF b = "completed" THEN JSONParse(r.text) ELSE result
    /\ ev' = Event("pollResp", j, r)
    /\ UNCHANGED <<mounted, url, isPlaying, audioElement, scrapes, starts, audioVars>>

PollResponse(j, r) ==
    /\ polls[j] > 0
    /\ polls' = [polls EXCEPT ![j] = @ - 1]
    /\ LET b == PollBranch(r)
           cleared == [timer EXCEPT ![j] = "cleared"]   \* clearInterval(pollInterval)
       IN
        /\ timer' = Settle(IF b = "pending" THEN timer ELSE cleared, polls')
        /\ loading' = IF b = "pending" THEN loading ELSE FALSE
        /\ error' = CASE b = "error"  -> PollErrorMessage(r)
                      [] b = "failed" -> CrawlFailedMsg
                      [] OTHER        -> error
        /\ result' = IF b = "completed" THEN JSONParse(r.text) ELSE result
    /\ ev' = Event("pollResp", j, r)
    /\ UNCHANGED <<mounted, url, isPlaying, audioElement, scrapes, starts, audioVars>>

\* ---- generateSpeech ------------------------------------------------------
\* process.env.NEXT_PUBLIC_ELEVENLABS_API_KEY is set in the deployment
ApiKeyConfigured == TRUE

\* generateSpeech without the test of the blob's size
generateSpeech_NoSizeTest(r) ==
    IF ~ApiKeyConfigured THEN Threw(NoKeyMsg)
    ELSE IF ~r.net THEN Threw(NetErrMsg)
    ELSE IF r.status = 401 THEN Threw(BadKeyMsg)
    ELSE IF ~ResponseOk(r) THEN Threw(SpeechFailed(r))
    ELSE Returned("blob:" \o r.text)

generateSpeech(r) ==
    IF ~ApiKeyConfigured THEN Threw(NoKeyMsg)
    ELSE IF ~r.net THEN Threw(NetErrMsg)
    ELSE IF r.status = 401 THEN Threw(BadKeyMsg)
    ELSE IF ~ResponseOk(r) THEN Threw(SpeechFailed(r))
    ELSE IF r.text = "" THEN Threw(EmptyAudioMsg)
    ELSE Returned("blob:" \o r.text)   \* URL.createObjectURL(audioBlob)

\* ---- Audio objects ---------------------------------------------------------
\* "none"     no such object (never created, or unreachable and collected)
\* "starting" play() was called and its promise is pending
\* "playing"  play() resolved
\* "stopped"  not playing and never to play again: play() rejected, or
\*            pause() + remove() were called, or 'ended' / 'error' was dispatched
Pause(au, a) ==
    IF a = NoAudio THEN au ELSE [au EXCEPT ![a] = "stopped"]

\* An object that can no longer play and that neither the state nor a
\* pending play() refers to is garbage.
Collect(au, pl, held) ==
    [a \in AudioIds |-> IF au[a] = "stopped" /\ a \notin pl /\ a # held
                        THEN "none" ELSE au[a]]

LiveAudios == {a \in AudioIds : audio[a] # "none"}
FreeAudio == CHOOSE a \in AudioIds : audio[a] = "none" /\ \A b \in AudioIds : audio[b] = "none" => a <= b

\* ---- handleTextToSpeech ----------------------------------------------------
SpeechText(res) ==
    IF res.data = "array" THEN OrElse(res.description, "")        \* data[0]?.metadata?.description || ''
    ELSE IF res.data = "object" THEN OrElse(res.description, "")  \* data.metadata?.description || ''
    ELSE ""

\* handleTextToSpeech without "if (!result) return": 'data' in null throws a
\* TypeError inside the try block
handleTextToSpeech_NoNullTest ==
    IF result = Null
    THEN /\ error' = "Cannot use 'in' operator to search for 'data' in null"
         /\ isPlaying' = FALSE
         /\ loading' = FALSE
         /\ UNCHANGED <<result, audioElement, audioVars>>
    ELSE IF ~Truthy(SpeechText(result))
    THEN /\ error' = NoTextMsg
         /\ isPlaying' = FALSE
         /\ loading' = FALSE
         /\ UNCHANGED <<result, audioElement, audioVars>>
    ELSE /\ audio' = Pause(audio, audioElement)
         /\ loading' = TRUE
         /\ synths' = synths + 1
         /\ UNCHANGED <<result, error, isPlaying, audioElement, plays>>

\* The handler up to "await generateSpeech(text)".  The text sent (cut to
\* 5000 characters) is not part of the state: the answer does not depend on it.
handleTextToSpeech ==
    IF result = Null
    THEN UNCHANGED <<session, audioVars>>
    ELSE IF ~Truthy(SpeechText(result))
    THEN /\ error' = NoTextMsg
         /\ isPlaying' = FALSE
         /\ loading' = FALSE
         /\ UNCHANGED <<result, audioElement, audioVars>>
    ELSE IF ~ApiKeyConfigured
    THEN /\ audio' = Pause(audio, audioElement)
         /\ error' = NoKeyMsg
         /\ isPlaying' = FALSE
         /\ loading' = FALSE
         /\ UNCHANGED <<result, audioElement, synths, plays>>
    ELSE /\ audio' = Pause(audio, audioElement)
         /\ loading' = TRUE
         /\ synths' = synths + 1
         /\ UNCHANGED <<result, error, isPlaying, audioElement, plays>>

\* The playback toggle is rendered when result is set, is disabled while
\* loading, and calls handleTextToSpeech unless isPlaying.
SpeakClick ==
    /\ mounted
    /\ result # Null /\ ~loading /\ ~isPlaying
    /\ Pending < MaxPending
    /\ Cardinality(LiveAudios) + synths < MaxAudios
    /\ handleTextToSpeech
    /\ ev' = Event("speak", 0, NetFail)
    /\ UNCHANGED <<mounted, url, scrapes, crawlVars>>

\* handleTextToSpeech called while result is null: the toggle is not rendered
\* then, so this is a call the page itself never makes; it exercises the
\* handler's first statement.
SpeakCall ==
    /\ mounted
    /\ result = Null
    /\ handleTextToSpeech
    /\ ev' = Event("speakCall", 0, NetFail)
    /\ UNCHANGED <<mounted, url, scrapes, crawlVars>>

\* generateSpeech settles: the rest of the try block up to "await audio.play()"
SynthResponse(r) ==
    /\ synths > 0
    /\ synths' = synths - 1
    /\ LET o == generateSpeech(r) IN
        IF o.threw
        THEN /\ error' = o.message
             /\ isPlaying' = FALSE
             /\ loading' = FALSE
             /\ ev' = Event("synthResp", 0, r)
             /\ UNCHANGED <<result, audioElement, plays, audio>>
        ELSE /\ audioElement' = FreeAudio                          \* new Audio(audioUrl)
             /\ isPlaying' = TRUE
             /\ plays' = plays \cup {FreeAudio}
             /\ audio' = Collect([audio EXCEPT ![FreeAudio] = "starting"], plays', FreeAudio)
             /\ ev' = Event("synthResp", FreeAudio, r)
             /\ UNCHANGED <<result, error, loading>>
    /\ UNCHANGED <<mounted, url, scrapes, crawlVars>>

\* audio.play() resolves: only the finally block is left
PlayResolved(a) ==
    /\ a \in plays
    /\ audio[a] = "starting"
    /\ plays' = plays \ {a}
    /\ audio' = [audio EXCEPT ![a] = "playing"]
    /\ loading' = FALSE
    /\ ev' = Event("playOk", a, NetFail)
    /\ UNCHANGED <<mounted, url, result, error, isPlaying, audioElement, scrapes, crawlVars, synths>>

\* audio.play() rejects (not allowed, aborted by pause(), source error): catch + finally
PlayRejected(a) ==
    /\ a \in plays
    /\ plays' = plays \ {a}
    /\ audio' = Collect([audio EXCEPT ![a] = "stopped"],
                        plays', audioElement)
    /\ error' = PlayErrMsg
    /\ isPlaying' = FALSE
    /\ loading' = FALSE
    /\ ev' = Event("playFail", a, NetFail)
    /\ UNCHANGED <<mounted, url, result, audioElement, scrapes, crawlVars, synths>>

\* the 'ended' listener without setIsPlaying(false)
AudioEnded_KeepsPlaying(a) ==
    /\ audio[a] = "playing"
    /\ audioElement' = NoAudio
    /\ audio' = Collect([audio EXCEPT ![a] = "stopped"], plays, NoAudio)
    /\ ev' = Event("ended", a, NetFail)
    /\ UNCHANGED <<mounted, url, loading, result, error, isPlaying, scrapes, crawlVars, synths, plays>>

\* the 'ended' listener
AudioEnded(a) ==
    /\ audio[a] = "playing"
    /\ isPlaying' = FALSE
    /\ audioElement' = NoAudio
    /\ audio' = Collect([audio EXCEPT ![a] = "stopped"], plays, NoAudio)
    /\ ev' = Event("ended", a, NetFail)
    /\ UNCHANGED <<mounted, url, loading, result, error, scrapes, crawlVars, synths, plays>>

\* the 'error' listener
AudioError(a) ==
    /\ audio[a] \in {"starting", "playing"}
    /\ error' = AudioErrMsg
    /\ isPlaying' = FALSE
    /\ audioElement' = NoAudio
    /\ audio' = Collect([audio EXCEPT ![a] = "stopped"], plays, NoAudio)
    /\ ev' = Event("audioError", a, NetFail)
    /\ UNCHANGED <<mounted, url, loading, result, scrapes, crawlVars, synths, plays>>

\* ---- stopAudio -------------------------------------------------------------
\* stopAudio that pauses the element and forgets setAudioElement(null)
stopAudio_KeepsHandle ==
    IF audioElement # NoAudio
    THEN /\ audio' = Collect(Pause(audio, audioElement), plays, audioElement)
         /\ isPlaying' = FALSE
         /\ UNCHANGED audioElement
    ELSE UNCHANGED <<audio, audioElement, isPlaying>>

stopAudio ==
    IF audioElement # NoAudio
    THEN /\ audio' = Collect(Pause(audio, audioElement), plays, NoAudio)
         /\ audioElement' = NoAudio
         /\ isPlaying' = FALSE
    ELSE UNCHANGED <<audio, audioElement, isPlaying>>

StopClick ==
    /\ mounted
    /\ result # Null /\ ~loading /\ isPlaying
    /\ stopAudio
    /\ ev' = Event("stop", 0, NetFail)
    /\ UNCHANGED <<mounted, url, loading, result, error, scrapes, crawlVars, synths, plays>>

\* stopAudio called while no Audio object is held: the toggle calls stopAudio
\* only when isPlaying, so this is a call the page itself never makes; it
\* exercises the handler's test.
StopCall ==
    /\ mounted
    /\ audioElement = NoAudio
    /\ stopAudio
    /\ ev' = Event("stopCall", 0, NetFail)
    /\ UNCHANGED <<mounted, url, loading, result, error, scrapes, crawlVars, synths, plays>>

\* ---- leaving the page --------------------------------------------------------
\* The component is unmounted. The only cleanup registered is the one of the
\* keydown effect, which removes the listener; the function handleCrawl
\* returns (() => clearInterval(pollInterval)) is the result of an event
\* handler and is never called. Timers, requests in flight and Audio objects
\* live on; the session variables then record what the setters are called with.
Unmount ==
    /\ mounted
    /\ mounted' = FALSE
    /\ ev' = Event("unmount", 0, NetFail)
    /\ UNCHANGED <<url, session, scrapes, crawlVars, audioVars>>

\* The scrape / crawl / poll part of the component: every step of the
\* extraction handlers, none of the playback toggle.
ExtractionNext ==
    \/ \E u \in Urls : SetUrl(u)
    \/ ScrapeClick
    \/ \E r \in ScrapeResponses : ScrapeResponse(r)
    \/ CrawlTrigger
    \/ \E r \in StartResponses : CrawlStartResponse(r)
    \/ \E j \in CrawlIds : Tick(j)
    \/ \E j \in CrawlIds, r \in PollResponses : PollResponse(j, r)

SpeechNext ==
    \/ SpeakClick
    \/ \E r \in SpeechResponses : SynthResponse(r)
    \/ \E a \in AudioIds : PlayResolved(a)
    \/ \E a \in AudioIds : PlayRejected(a)
    \/ \E a \in AudioIds : AudioEnded(a)
    \/ \E a \in AudioIds : AudioError(a)
    \/ StopClick

Next == ExtractionNext \/ SpeechNext

\* the whole component
Spec == Init /\ [][Next]_vars

\* the component while the playback toggle is left alone
ExtractionSpec == Init /\ [][ExtractionNext]_vars

\* the extraction part over the component's whole life, unmounting included
LifecycleNext == ExtractionNext \/ Unmount

LifecycleSpec == Init /\ [][LifecycleNext]_vars

\* the component while no crawl is started: scrapes and playback
PlaybackNext ==
    \/ \E u \in Urls : SetUrl(u)
    \/ ScrapeClick
    \/ \E r \in ScrapeResponses : ScrapeResponse(r)
    \/ SpeechNext

PlaybackSpec == Init /\ [][PlaybackNext]_vars

\* scrapes and playback, with the two playback handlers also called in the
\* states where the toggle does not call them
HandlerNext == PlaybackNext \/ SpeakCall \/ StopCall

HandlerSpec == Init /\ [][HandlerNext]_vars

\* The extraction part with the scheduling the browser gives: every request
\* settles (fetch resolves or rejects) and its continuation runs; an active
\* interval timer keeps firing every 5 seconds whatever else is in flight
\* (strong fairness: the timer of one crawl is not held back by the status
\* requests of another that fill the bound MaxPolls).
ExtractionFairness ==
    /\ WF_vars(\E r \in ScrapeResponses : ScrapeResponse(r))
    /\ WF_vars(\E r \in StartResponses : CrawlStartResponse(r))
    /\ \A j \in CrawlIds : SF_vars(Tick(j))
    /\ \A j \in CrawlIds : WF_vars(\E r \in PollResponses : PollResponse(j, r))

FairExtractionSpec == ExtractionSpec /\ ExtractionFairness

(***************************************************************************)
(* Properties                                                              *)
(***************************************************************************)
\* what the last step handled
Parsed(e)        == e.resp.net /\ IsJson(e.resp.text)
Body(e)          == JSONParse(e.resp.text)
PollAnswered(e)  == e.op = "pollResp"
PollCompleted(e) == PollAnswered(e) /\ Parsed(e) /\ Body(e).status = "completed"
PollFailed(e)    == PollAnswered(e) /\ Parsed(e) /\ Body(e).status = "failed"
PollPending(e)   == PollAnswered(e) /\ Parsed(e) /\ Body(e).status \notin {"completed", "failed"}
PollErrored(e)   == PollAnswered(e) /\ ~Parsed(e)
ScrapeSucceeded(e) ==
    e.op = "scrapeResp" /\ Parsed(e) /\ ResponseOk(e.resp) /\ Body(e).success
ScrapeRefused(e) ==
    e.op = "scrapeResp" /\ Parsed(e) /\ ~ResponseOk(e.resp) /\ Body(e).message # Undefined

ActiveTimers == {j \in CrawlIds : timer[j] = "active"}
\* user actions in flight: scrapes, crawls from their start request to the
\* end of their polling, synthesis calls
InFlight == scrapes + starts + Cardinality(ActiveTimers) + synths

\* C1: at most one user action (a scrape, a crawl from its start request until
\* its poller is terminal, a synthesis call) is in flight at any time, and
\* busy is true whenever one is.
OneActionInFlight == InFlight <= 1 /\ (InFlight >= 1 => loading)

\* C2: in every state where a crawl's poll timer is active, busy is true.
BusyWhilePolling == \A j \in CrawlIds : timer[j] = "active" => loading

\* C3: after a poll response that parses with status "completed" the timer of
\* that crawl is not active (no tick can issue another status request), result
\* is that response as parsed, and busy is false.
CompletedStopsPolling ==
    PollCompleted(ev) =>
        /\ timer[ev.id] # "active"
        /\ ~ENABLED Tick(ev.id)
        /\ result = Body(ev)
        /\ loading = FALSE
CompletedSeen ==
    /\ PollCompleted(ev)
    /\ result = JSONParse(TxtCompleted)
    /\ ~loading

\* C4: a poll response that parses with status "failed" stops the timer, sets
\* error to "Crawl failed" and busy to false, and leaves result as it was.
FailedSetsCrawlFailed ==
    [][PollFailed(ev') =>
        /\ timer'[ev'.id] # "active"
        /\ error' = "Crawl failed"
        /\ loading' = FALSE
        /\ result' = result]_vars
FailedSeen ==
    /\ PollFailed(ev)
    /\ error = "Crawl failed"
    /\ result # Null
    /\ ~loading

\* C5: a poll response that parses with a status other than "completed" and
\* "failed" changes none of result, error and busy, and leaves every timer as
\* it was: the crawl's timer, if active, stays active and goes on ticking.
PendingChangesNothing ==
    [][PollPending(ev') =>
        /\ result' = result
        /\ error' = error
        /\ loading' = loading
        /\ \A j \in CrawlIds : (timer'[j] = "active") = (timer[j] = "active")]_vars
PendingSeen ==
    /\ PollPending(ev)
    /\ timer[ev.id] = "active"
    /\ loading
    /\ ENABLED Tick(ev.id)

\* C6: after a poll tick that fails (the request fails, or the body is not
\* JSON) the timer of that crawl is not active, error is the failure's
\* message, and busy is false.
PollErrorStopsPolling ==
    PollErrored(ev) =>
        /\ timer[ev.id] # "active"
        /\ ~ENABLED Tick(ev.id)
        /\ error = (IF ev.resp.net THEN "Invalid JSON response: " \o ev.resp.text
                    ELSE NetErrMsg)
        /\ loading = FALSE
PollErrorSeen ==
    /\ PollErrored(ev)
    /\ ev.resp.net
    /\ error = "Invalid JSON response: <html>Bad Gateway</html>"
    /\ ~loading

\* C7: after a non-2xx response from POST /scrape, POST /crawl or
\* GET /crawl/{id} an error is shown, and a non-2xx poll response leaves the
\* crawl's timer stopped.
NonOkSurfacesError ==
    (ev.op \in {"scrapeResp", "crawlResp", "pollResp"} /\ ev.resp.net /\ ~ResponseOk(ev.resp)) =>
        /\ error # NoError
        /\ ev.op = "pollResp" => timer[ev.id] # "active"

\* C8: at most one Audio object is starting or playing at any time.
OneActiveAudio == Cardinality({a \in AudioIds : audio[a] \in {"starting", "playing"}}) <= 1

NonOkScrapeShowsMessage ==
    [][ScrapeRefused(ev') =>
        /\ error' = Body(ev').message
        /\ result' = result]_vars
\* C10 as amended: the same for a non-empty message m.
NonOkScrapeShowsNonEmptyMessage ==
    [][(ScrapeRefused(ev') /\ Body(ev').message # "") =>
        /\ error' = Body(ev').message
        /\ result' = result]_vars
NonOkScrapeSeen ==
    /\ ScrapeRefused(ev)
    /\ error = "Unauthorized"
    /\ result # Null

\* C11: every scrape that is started finishes, and the step that finishes it
\* leaves busy false whatever the outcome of the request (success, non-2xx
\* status, unparseable body, network failure).
ScrapeFinished(e) == e.op = "scrapeResp"
ScrapeAlwaysFinishesIdle ==
    /\ (scrapes > 0) ~> (ScrapeFinished(ev) /\ ~loading)
    /\ [](ScrapeFinished(ev) => ~loading)
ScrapeFinishedSeen ==
    /\ ScrapeFinished(ev)
    /\ ev.resp = Http(500, TxtHtml)
    /\ scrapes = 0
    /\ ~loading

\* C12: when the request that starts a crawl fails (network error, body that
\* is not JSON, non-2xx status), the step that handles the failure sets error
\* to the failure's message, leaves result as it was, sets busy to false and
\* creates no poll timer.
StartFailed(e) ==
    /\ e.op = "crawlResp"
    /\ (~e.resp.net \/ ~IsJson(e.resp.text) \/ ~ResponseOk(e.resp))
StartFailureMessage(r) ==
    IF ~r.net THEN "Failed to fetch"
    ELSE IF ~IsJson(r.text) THEN "Invalid JSON response: " \o r.text
    ELSE IF JSONParse(r.text).message \notin {Undefined, ""} THEN JSONParse(r.text).message
    ELSE "Failed to start crawl"
StartFailureStartsNoPolling ==
    [][StartFailed(ev') =>
          /\ error' = StartFailureMessage(ev'.resp)
          /\ result' = result
          /\ loading' = FALSE
          /\ timer' = timer
          /\ polls' = polls]_vars
StartFailureSeen ==
    /\ StartFailed(ev)
    /\ ev.resp = Http(401, TxtMessage)
    /\ error = "Unauthorized"
    /\ result # Null
    /\ ~loading
    /\ ActiveTimers = {}

\* C13: in every reachable state at most one crawl poll timer is running.
AtMostOneTimer == Cardinality(ActiveTimers) <= 1

\* C19: once a status response of a crawl has taken a terminal branch and
\* cleared the timer, no later response of that crawl changes result, error
\* or busy.
LateResponse(j) == timer[j] = "cleared" /\ polls[j] > 0
OneTerminalOutcome ==
    [][\A j \in CrawlIds :
          (LateResponse(j) /\ ev'.op = "pollResp" /\ ev'.id = j)
              => UNCHANGED <<result, error, loading>>]_vars

\* C14: the poller can be cancelled by its caller: leaving the page stops
\* every running poll timer, and no status request is issued afterwards.
UnmountCancelsPolling ==
    [][/\ (mounted /\ ~mounted') => ActiveTimers' = {}
       /\ ~mounted => ev'.op # "tick"]_vars
\* what the code does instead: a running timer is stopped by the branch of a
\* status response and by nothing else
OnlyResponsesStopTimers ==
    [][\A j \in CrawlIds :
          (timer[j] = "active" /\ timer'[j] # "active")
              => (PollAnswered(ev') /\ ev'.id = j /\ ~PollPending(ev'))]_vars

\* C15: the poller runs until a terminal status or an error and has no
\* maximum poll count. (1) A timer keeps running only as long as parseable,
\* non-terminal answers keep coming: once they stop coming, the timer stops.
\* (2) The step that handles a terminal status or an error leaves the timer
\* stopped and busy false. (3) If every status response is parseable and
\* non-terminal, a running timer runs forever with busy true, (4) and it
\* keeps issuing status requests.
TerminalAnswer(e) == PollAnswered(e) /\ ~PollPending(e)
PollsUntilTerminalOrError ==
    /\ \A j \in CrawlIds :
          <>[](timer[j] = "active") => []<>(PollPending(ev) /\ ev.id = j)
    /\ [](TerminalAnswer(ev) => (timer[ev.id] # "active" /\ ~loading))
    /\ [](PollAnswered(ev) => PollPending(ev))
          => \A j \in CrawlIds :
                [](timer[j] = "active" => [](timer[j] = "active" /\ loading))
    /\ \A j \in CrawlIds :
          <>[](timer[j] = "active") => []<>(ev.op = "tick" /\ ev.id = j)
PollerStoppedSeen ==
    /\ TerminalAnswer(ev)
    /\ ~ev.resp.net
    /\ error = "Failed to fetch"
    /\ timer[ev.id] = "none"
    /\ polls[ev.id] = 0
    /\ ~loading

\* C16: handleTextToSpeech called while result is null issues no request and
\* changes none of busy, error, isPlaying, the audio handle and result.
SpeakOnNullIsNoOp ==
    [][(ev'.op = "speakCall" /\ result = Null)
          => UNCHANGED <<loading, error, isPlaying, audioElement, result,
                         scrapes, starts, polls, synths, plays, audio>>]_vars
SpeakOnNullSeen ==
    /\ ev.op = "speakCall"
    /\ result = Null
    /\ url # ""
    /\ synths = 0
    /\ error # NoError

\* C17: when the synthesis call fails with HTTP 401, another non-2xx status
\* or a zero-length payload, the step that handles the failure stores the
\* failure's message in error, leaves isPlaying false and busy false, and
\* creates no Audio object and no new handle.
SynthFailed(e) ==
    /\ e.op = "synthResp"
    /\ e.resp.net
    /\ (e.resp.status = 401 \/ ~ResponseOk(e.resp) \/ e.resp.text = "")
SynthFailureMessage(r) ==
    IF r.status = 401 THEN "Invalid ElevenLabs API key. Please check your configuration."
    ELSE IF r.status = 500 THEN "Failed to generate speech: 500 Internal Server Error"
    ELSE "Received empty audio response"
SynthFailureStoresError ==
    [][SynthFailed(ev') =>
          /\ error' = SynthFailureMessage(ev'.resp)
          /\ ~isPlaying'
          /\ ~loading'
          /\ audioElement' = audioElement
          /\ audio' = audio
          /\ plays' = plays]_vars
SynthFailureSeen ==
    /\ SynthFailed(ev)
    /\ ev.resp = Http(200, "")
    /\ error = "Received empty audio response"
    /\ ~isPlaying
    /\ ~loading
    /\ audioElement = NoAudio

\* C18: stopAudio with a held handle, the end of playback and a playback
\* error each leave isPlaying false and the handle null (and the stopped
\* object no longer plays); stopAudio with no handle held changes nothing.
PlaybackStopped(e) == e.op \in {"ended", "audioError"}
StoppingReleasesHandle ==
    [][/\ (ev'.op = "stop" /\ audioElement # NoAudio)
            => /\ ~isPlaying'
               /\ audioElement' = NoAudio
               /\ audio'[audioElement] \notin {"starting", "playing"}
       /\ PlaybackStopped(ev')
            => /\ ~isPlaying'
               /\ audioElement' = NoAudio
               /\ audio'[ev'.id] \notin {"starting", "playing"}
       /\ (ev'.op = "stopCall" /\ audioElement = NoAudio)
            => UNCHANGED <<loading, error, isPlaying, audioElement, result,
                           scrapes, starts, polls, synths, plays, audio>>]_vars
StoppedSeen ==
    /\ ev.op = "stop"
    /\ ~isPlaying
    /\ audioElement = NoAudio
    /\ LiveAudios = {}
    /\ ~loading

\* C20: in every reachable state, isPlaying implies that an audio handle is
\* held.
PlayingHoldsHandle == isPlaying => audioElement # NoAudio
PlayingSeen ==
    /\ isPlaying
    /\ audioElement # NoAudio
    /\ audio[audioElement] = "playing"
    /\ ~loading
    /\ ENABLED StopClick
====
